---------------------------- MODULE Spec2Model ----------------------------
(***************************************************************************)
(* A model of the hold'em match runner (tournament.run_match), the demo    *)
(* handler that drives it (routes.bot_detail) and the 5-card evaluator     *)
(* (poker_eval).  The hand engine, the visible-state builder, the action   *)
(* normaliser and the bot sandbox are not part of the translated sources;  *)
(* they are modelled from the design document and marked as such.          *)
(***************************************************************************)
EXTENDS Integers, Sequences, FiniteSets, TLC

VARIABLES
    \* ---- evaluator harness (poker_eval) ----
    ev_cards,      \* the list of card strings handed to rank_5
    ev_hs,         \* the HandStrength rank_5 returned, or NoHS before the call
    \* ---- comparison harness (poker_eval._compare_hand_strength) ----
    cmp_a,         \* the first HandStrength handed to the comparison
    cmp_b,         \* the second HandStrength
    cmp_r,         \* <<>> before the call, <<the returned integer>> after it
    \* ---- capture harness (routes._append_block) ----
    ab_buf,        \* the buffer: a list of strings
    ab_appended,   \* every block handed to _append_block so far, in order
    ab_max_chars,  \* the cap the buffer is appended with
    \* ---- the arguments of run_match ----
    bot_codes,     \* list of bot sources, seat order
    seed,          \* the match seed
    mcfg,          \* MatchConfig
    \* ---- control ----
    pc,            \* where the caller / run_match / simulate_hand stands
    rerun,         \* FALSE in the first run, TRUE in the repeated one
    first,         \* what the first run returned (or raised), kept for the repeated run
    \* ---- run_match locals ----
    h,             \* the for loop's index
    stacks,        \* carried stacks
    dealer,        \* dealer seat of the next hand
    hands,         \* list of HandResult
    result,        \* the MatchResult returned, or NoResult
    hd,            \* the hand in progress inside simulate_hand, or NoHand
    \* ---- closures of the caller (routes.bot_detail) ----
    logs_by_seat,  \* seat -> list of log blocks
    errors_by_seat,\* seat -> list of error blocks
    demo_logs,     \* inline logs of seat 0
    \* ---- database rows written by the caller ----
    match,         \* the Match row
    match_hands,   \* MatchHand rows
    match_results, \* MatchResult rows
    match_bot_logs,\* MatchBotLog rows
    played,        \* Rating.matches_played per table seat
    \* ---- history ----
    calls,         \* the simulate_hand calls of this run, in order
    decisions      \* the decision points of this run, in order

ev_vars == <<ev_cards, ev_hs>>

cmp_vars == <<cmp_a, cmp_b, cmp_r>>

buf_vars == <<ab_buf, ab_appended, ab_max_chars>>

arg_vars == <<bot_codes, seed, mcfg>>

run_vars == <<h, stacks, dealer, hands, result, hd>>

closure_vars == <<logs_by_seat, errors_by_seat, demo_logs>>

db_vars == <<match, match_hands, match_results, match_bot_logs, played>>

hist_vars == <<calls, decisions>>

vars == <<ev_cards, ev_hs, cmp_a, cmp_b, cmp_r, ab_buf, ab_appended,
          ab_max_chars, bot_codes, seed, mcfg, pc, rerun, first, h, stacks, dealer,
          hands, result, hd, logs_by_seat, errors_by_seat, demo_logs, match, match_hands,
          match_results, match_bot_logs, played, calls, decisions>>

(***************************************************************************)
(* Generic helpers: Python list / tuple primitives used by the sources.    *)
(***************************************************************************)
Max(S) == CHOOSE x \in S : \A y \in S : y <= x

Range(s) == {s[i] : i \in 1..Len(s)}

\* Python tuple / list ordering: a < b, lexicographic, a proper prefix is smaller.
RECURSIVE LexLess(_, _)
LexLess(a, b) ==
    IF b = <<>> THEN FALSE
    ELSE IF a = <<>> THEN TRUE
    ELSE IF Head(a) # Head(b) THEN Head(a) < Head(b)
    ELSE LexLess(Tail(a), Tail(b))

\* sorted(xs, reverse=True) on a list of integers
RECURSIVE InsertDesc(_, _)
InsertDesc(x, s) ==
    IF s = <<>> THEN <<x>>
    ELSE IF x >= Head(s) THEN <<x>> \o s
    ELSE <<Head(s)>> \o InsertDesc(x, Tail(s))

RECURSIVE SortedDesc(_)
SortedDesc(s) == IF s = <<>> THEN <<>> ELSE InsertDesc(Head(s), SortedDesc(Tail(s)))

\* sorted(S, reverse=True) on a collection of distinct integer tuples
RECURSIVE SortedTuplesDesc(_)
SortedTuplesDesc(S) ==
    IF S = {} THEN <<>>
    ELSE LET m == CHOOSE x \in S : \A y \in S : y = x \/ LexLess(y, x)
         IN  <<m>> \o SortedTuplesDesc(S \ {m})

\* xs[:n]
Take(s, n) == SubSeq(s, 1, IF n < Len(s) THEN n ELSE Len(s))

\* [x for x in xs if x not in drop]
RECURSIVE Without(_, _)
Without(s, drop) ==
    IF s = <<>> THEN <<>>
    ELSE IF Head(s) \in drop THEN Without(Tail(s), drop)
    ELSE <<Head(s)>> \o Without(Tail(s), drop)

(***************************************************************************)
(* poker_eval.py                                                           *)
(***************************************************************************)
RANKS == <<"2", "3", "4", "5", "6", "7", "8", "9", "T", "J", "Q", "K", "A">>

SUITS == <<"c", "d", "h", "s">>

_CATEGORY == <<"high_card", "pair", "two_pair", "three_of_a_kind", "straight",
               "flush", "full_house", "four_of_a_kind", "straight_flush">>

\* s.index(x): zero-based position of the first occurrence
IndexOf(s, x) == (CHOOSE i \in 1..Len(s) : s[i] = x /\ \A j \in 1..(i - 1) : s[j] # x) - 1

_rank_value(r) == IndexOf(RANKS, r) + 2

InvalidCard == <<0, "ValueError">>

\* raise ValueError(f"Invalid card: {card}"), as the value of the call that raised
InvalidCardError == [category |-> "ValueError", rank |-> <<>>]

\* the call raised instead of returning a HandStrength
Raised(hs) == hs.category = "ValueError"

\* a card string is the sequence of its characters
parse_card(card) ==
    IF Len(card) # 2 THEN InvalidCard
    ELSE IF card[1] \notin Range(RANKS) \/ card[2] \notin Range(SUITS) THEN InvalidCard
    ELSE <<_rank_value(card[1]), card[2]>>

\* the for loop of _is_straight: the first 5-window spanning exactly 4 with 5 distinct values
StraightWindow(ranks_desc) ==
    LET Hit(i) == /\ ranks_desc[i] - ranks_desc[i + 4] = 4
                  /\ Cardinality({ranks_desc[j] : j \in i..(i + 4)}) = 5
        hits == {i \in 1..(Len(ranks_desc) - 4) : Hit(i)}
    IN  IF hits = {} THEN <<FALSE, 0>>
        ELSE <<TRUE, ranks_desc[CHOOSE i \in hits : \A j \in hits : i <= j]>>

_is_straightNoWheel(ranks_desc) ==
    IF Len(ranks_desc) < 5 THEN <<FALSE, 0>> ELSE StraightWindow(ranks_desc)

\* ranks_desc: the unique ranks, sorted descending; returns <<is_straight, top>>
_is_straight(ranks_desc) ==
    IF Len(ranks_desc) < 5 THEN <<FALSE, 0>>
    ELSE IF Take(ranks_desc, 4) = <<14, 5, 4, 3>> /\ 2 \in Range(ranks_desc)
    THEN <<TRUE, 5>>
    ELSE StraightWindow(ranks_desc)

HandStrength(category, rank) == [category |-> category, rank |-> rank]

NoHS == [category |-> "none", rank |-> <<>>]

\* sorted(keys, reverse=True) on a set of integers
RECURSIVE SetSortedDesc(_)
SetSortedDesc(S) ==
    IF S = {} THEN <<>> ELSE <<Max(S)>> \o SetSortedDesc(S \ {Max(S)})

KickersAscending(unique_ranks_desc, used, n) ==
    LET rest == Without(unique_ranks_desc, used)
    IN  Take([i \in 1..Len(rest) |-> rest[Len(rest) + 1 - i]], n)

\* sorted([r for r in unique_ranks_desc if r not in used], reverse=True)[:n]
Kickers(unique_ranks_desc, used, n) ==
    Take(SortedDesc(Without(unique_ranks_desc, used)), n)

rank_5(cards) ==
    LET parsed == [i \in 1..Len(cards) |-> parse_card(cards[i])]
        ranks  == SortedDesc([i \in 1..Len(cards) |-> parsed[i][1]])
        suits  == [i \in 1..Len(cards) |-> parsed[i][2]]
        is_flush == Cardinality(Range(suits)) = 1
        counts == [r \in Range(ranks) |-> Cardinality({i \in 1..Len(ranks) : ranks[i] = r})]
        \* (cnt, r) pairs sorted by count then rank, descending
        groups == SortedTuplesDesc({<<counts[r], r>> : r \in DOMAIN counts})
        unique_ranks_desc == SetSortedDesc(DOMAIN counts)
        st == _is_straight(unique_ranks_desc)
        is_straight == st[1]
        top == st[2]
    IN  IF \E i \in 1..Len(cards) : parsed[i] = InvalidCard THEN InvalidCardError
        ELSE IF is_flush /\ is_straight THEN HandStrength("straight_flush", <<top>>)
        ELSE IF groups[1][1] = 4 THEN
            LET quad == groups[1][2]
                kicker == Max({r \in Range(unique_ranks_desc) : r # quad})
            IN  HandStrength("four_of_a_kind", <<quad, kicker>>)
        ELSE IF groups[1][1] = 3 /\ Len(groups) > 1 /\ groups[2][1] >= 2 THEN
            LET trips == groups[1][2]
                pair == Max({groups[i][2] : i \in {j \in 2..Len(groups) : groups[j][1] >= 2}})
            IN  HandStrength("full_house", <<trips, pair>>)
        ELSE IF is_flush THEN HandStrength("flush", SortedDesc(ranks))
        ELSE IF is_straight THEN HandStrength("straight", <<top>>)
        ELSE IF groups[1][1] = 3 THEN
            LET trips == groups[1][2]
            IN  HandStrength("three_of_a_kind", <<trips>> \o Kickers(unique_ranks_desc, {trips}, 2))
        ELSE IF groups[1][1] = 2 THEN
            LET pairs == SetSortedDesc({groups[i][2] : i \in {j \in 1..Len(groups) : groups[j][1] = 2}})
            IN  IF Len(pairs) >= 2 THEN
                    LET hi == pairs[1]
                        lo == pairs[2]
                        kicker == Max({r \in Range(unique_ranks_desc) : r \notin {hi, lo}})
                    IN  HandStrength("two_pair", <<hi, lo, kicker>>)
                ELSE HandStrength("pair", <<pairs[1]>> \o Kickers(unique_ranks_desc, {pairs[1]}, 3))
        ELSE HandStrength("high_card", SortedDesc(ranks))

\* a comparison that looks at the first entry of the tuples only
_compare_hand_strengthFirstEntry(a, b) ==
    LET ai == IndexOf(_CATEGORY, a.category)
        bi == IndexOf(_CATEGORY, b.category)
    IN  IF ai # bi THEN (IF ai > bi THEN 1 ELSE -1)
        ELSE IF a.rank # b.rank THEN (IF a.rank[1] > b.rank[1] THEN 1 ELSE -1)
        ELSE 0

_compare_hand_strength(a, b) ==
    LET ai == IndexOf(_CATEGORY, a.category)
        bi == IndexOf(_CATEGORY, b.category)
    IN  IF ai # bi THEN (IF ai > bi THEN 1 ELSE -1)
        ELSE IF a.rank # b.rank THEN (IF LexLess(b.rank, a.rank) THEN 1 ELSE -1)
        ELSE 0

\* itertools.combinations(range(n), 5): the index tuples in lexicographic order
Combinations5(n) ==
    LET all == {<<a, b, c, d, e>> : a \in 1..n, b \in 1..n, c \in 1..n, d \in 1..n, e \in 1..n}
        desc == SortedTuplesDesc({t \in all : t[1] < t[2] /\ t[2] < t[3] /\ t[3] < t[4]
                                               /\ t[4] < t[5]})
    IN  [i \in 1..Len(desc) |-> desc[Len(desc) + 1 - i]]

\* the 21 index tuples of a 7-card list
Combinations5of7 == Combinations5(7)

\* raise ValueError("best_of_7 requires 7 cards")
BestOf7Error == [category |-> "ValueError", rank |-> <<>>]

ReplacesBestWhenWeaker(hs, best) == _compare_hand_strength(hs, best) < 0

\* if _compare_hand_strength(hs, best) > 0: best = hs
ReplacesBest(hs, best) == _compare_hand_strength(hs, best) > 0

\* the for loop of best_of_7 from the k-th combination on, best being the value so far
RECURSIVE BestFrom(_, _, _)
BestFrom(cards7, k, best) ==
    IF k > Len(Combinations5of7) THEN best
    ELSE LET combo == [i \in 1..5 |-> cards7[Combinations5of7[k][i]]]
             hs == rank_5(combo)
         IN  IF Raised(hs) THEN hs
             ELSE BestFrom(cards7, k + 1,
                           IF best = NoHS THEN hs
                           ELSE IF ReplacesBest(hs, best) THEN hs
                           ELSE best)

best_of_7(cards7) ==
    IF Len(cards7) # 7 THEN BestOf7Error ELSE BestFrom(cards7, 1, NoHS)

\* compare_best_of_7(cards7_a, cards7_b)
compare_best_of_7(cards7_a, cards7_b) ==
    LET a == best_of_7(cards7_a)
        b == best_of_7(cards7_b)
    IN  IF Raised(a) THEN a
        ELSE IF Raised(b) THEN b
        ELSE _compare_hand_strength(a, b)

(***************************************************************************)
(* Text.  A Python str is the sequence of its characters; None is a token  *)
(* that is no character.                                                   *)
(***************************************************************************)
None == <<"None">>

\* Python truthiness of an optional str
Truthy(x) == x # None /\ x # <<>>

\* the characters c with c.isspace() that a string of a module can hold: space,
\* \t \n \r, form feed, and (written as the characters themselves) \x0b,
\* \x1c..\x1f, \x85, \xa0 and U+1680; the lexer rejects the other 16 (U+2000..U+200A,
\* U+2028, U+2029, U+202F, U+205F, U+3000), so no string of the model holds them
Whitespace ==
    {" ", "\n", "\t", "\r", "\f", "", "", "", "", "", "", " ", " "}

\* str.rstrip()
RECURSIVE rstrip(_)
rstrip(x) ==
    IF x = <<>> THEN <<>>
    ELSE IF x[Len(x)] \in Whitespace THEN rstrip(SubSeq(x, 1, Len(x) - 1))
    ELSE x

\* str(n) for n >= 0
Digits == <<"0", "1", "2", "3", "4", "5", "6", "7", "8", "9">>

RECURSIVE Str(_)
Str(n) == IF n < 10 THEN <<Digits[n + 1]>> ELSE Str(n \div 10) \o <<Digits[(n % 10) + 1]>>

\* sep.join(parts)
RECURSIVE Join(_, _)
Join(sep, parts) ==
    IF parts = <<>> THEN <<>>
    ELSE IF Len(parts) = 1 THEN parts[1]
    ELSE parts[1] \o sep \o Join(sep, Tail(parts))

\* str.strip()
RECURSIVE lstrip(_)
lstrip(x) ==
    IF x = <<>> THEN <<>>
    ELSE IF Head(x) \in Whitespace THEN lstrip(Tail(x))
    ELSE x

strip(x) == lstrip(rstrip(x))

StreetText == [st \in {"preflop", "flop", "turn", "river"} |->
    CASE st = "preflop" -> <<"p", "r", "e", "f", "l", "o", "p">>
      [] st = "flop"    -> <<"f", "l", "o", "p">>
      [] st = "turn"    -> <<"t", "u", "r", "n">>
      [] st = "river"   -> <<"r", "i", "v", "e", "r">>]

(***************************************************************************)
(* Bot sources.  A bot's code is an opaque string to the match runner; the *)
(* model names each source and gives what running it returns.              *)
(***************************************************************************)
BASELINE_BOT_CODE == "baseline"   \* services.BASELINE_BOT_CODE

PRINTING_BOT == "printing"        \* the smoke test's bot: prints, then plays as the baseline

CRASHING_BOT == "crashing"        \* a bot whose run fails at every decision point

SHOVING_BOT == "shoving"          \* a bot that goes all in while it holds a full stack

BotCodes == {BASELINE_BOT_CODE, PRINTING_BOT, CRASHING_BOT, SHOVING_BOT}

Action(t) == [type |-> t]

NoAction == [type |-> "None"]

\* legal = {a["type"]: a for a in game_state.get("legal_actions", [])}: its keys
LegalTypes(gs) == {gs.legal_actions[i].type : i \in 1..Len(gs.legal_actions)}

\* decide_action of BASELINE_BOT_CODE (and of the smoke test's bot after its print)
decide_action(gs) ==
    IF "check" \in LegalTypes(gs) THEN Action("check")
    ELSE IF "call" \in LegalTypes(gs) THEN Action("call")
    ELSE Action("fold")

BotRunResult(ok, action, logs, error) ==
    [ok |-> ok, action |-> action, logs |-> logs, error |-> error]

\* print('hi', game_state.get('street')) as captured output
PrintedHi(gs) == <<"h", "i", " ">> \o StreetText[gs.street] \o <<"\n">>

\* bot_sandbox.run_bot_action_fast: runs the bot's decide_action on the visible state
run_bot_action_fast(code_str, gs) ==
    CASE code_str = BASELINE_BOT_CODE -> BotRunResult(TRUE, decide_action(gs), <<>>, None)
      [] code_str = PRINTING_BOT      -> BotRunResult(TRUE, decide_action(gs), PrintedHi(gs), None)
      [] code_str = SHOVING_BOT       ->
            BotRunResult(TRUE, IF gs.stacks[gs.actor_seat] >= 1000
                               THEN Action("all_in") ELSE decide_action(gs), <<>>, None)
      [] code_str = CRASHING_BOT      ->
            CASE gs.street = "preflop" ->
                    BotRunResult(FALSE, NoAction, <<>>, <<"b", "o", "o", "m", "\n">>)
              [] gs.street = "flop"    -> BotRunResult(TRUE, NoAction, <<>>, None)
              [] gs.street = "turn"    -> BotRunResult(FALSE, Action("all_in"), <<>>, None)
              [] gs.street = "river"   -> BotRunResult(FALSE, NoAction, PrintedHi(gs), <<>>)

(***************************************************************************)
(* routes.py: the closures bot_detail hands to run_match                   *)
(***************************************************************************)
LogsMaxChars == 20000

ErrorsMaxChars == 30000

\* a cut that keeps the start of the joined text
_append_blockKeepsHead(buf, block, max_chars) ==
    IF block = <<>> THEN buf
    ELSE LET appended == Append(buf, block)
             joined == Join(<<"\n">>, appended)
         IN  IF Len(joined) > max_chars
             THEN <<SubSeq(joined, 1, max_chars)>>
             ELSE appended

\* _append_block(buf, block, max_chars=...): the buffer afterwards
_append_block(buf, block, max_chars) ==
    IF block = <<>> THEN buf
    ELSE LET appended == Append(buf, block)
             joined == Join(<<"\n">>, appended)
         IN  IF Len(joined) > max_chars
             THEN <<SubSeq(joined, Len(joined) - max_chars + 1, Len(joined))>>
             ELSE appended

\* f"--- {hand_id} {street} seat={seat} ---\n" and its ERROR variant
Header(gs, seat, tag) ==
    <<"-", "-", "-", " ">> \o gs.hand_id \o <<" ">> \o StreetText[gs.street]
        \o <<" ", "s", "e", "a", "t", "=">> \o Str(seat) \o tag \o <<" ", "-", "-", "-", "\n">>

FallbackNoCall(gs) ==
    IF "check" \in LegalTypes(gs) THEN Action("check")
    ELSE Action("fold")

\* the fallback action on bot failure
Fallback(gs) ==
    IF "check" \in LegalTypes(gs) THEN Action("check")
    ELSE IF "call" \in LegalTypes(gs) THEN Action("call")
    ELSE Action("fold")

\* _decide(code_str, gs) given the sandbox's result: the action returned and the
\* closures' buffers afterwards
_decide(res, gs, logs, errors, inline) ==
    LET seat == gs.actor_seat
    IN  IF res.ok /\ res.action # NoAction THEN
            [action |-> res.action,
             logs   |-> IF Truthy(res.logs)
                        THEN [logs EXCEPT ![seat] =
                                 _append_block(@, Header(gs, seat, <<>>) \o rstrip(res.logs),
                                               LogsMaxChars)]
                        ELSE logs,
             errors |-> errors,
             inline |-> IF Truthy(res.logs) /\ seat = 0
                        THEN Append(inline, [hand_id |-> gs.hand_id, street |-> gs.street,
                                             logs |-> res.logs])
                        ELSE inline]
        ELSE
            [action |-> Fallback(gs),
             logs   |-> logs,
             errors |-> IF Truthy(res.error)
                        THEN [errors EXCEPT ![seat] =
                                 _append_block(@, Header(gs, seat, <<" ", "E", "R", "R", "O", "R">>)
                                                      \o rstrip(res.error),
                                               ErrorsMaxChars)]
                        ELSE errors,
             inline |-> inline]

(***************************************************************************)
(* The hand engine (engine.simulate_hand), the visible-state builder and   *)
(* the action normaliser (game_state), after sections 4.3 to 4.5 of the    *)
(* design document.  Lists indexed by seat are functions on 0..seats-1.    *)
(* The seeded shuffle and the showdown evaluation are one function of the  *)
(* hand seed and the seat.                                                 *)
(***************************************************************************)
Seats(n) == 0..(n - 1)

RECURSIVE SumUpTo(_, _)
SumUpTo(f, k) == IF k < 0 THEN 0 ELSE f[k] + SumUpTo(f, k - 1)

\* sum(xs) of a seat-indexed list
Sum(f) == SumUpTo(f, Cardinality(DOMAIN f) - 1)

MinOf(a, b) == IF a < b THEN a ELSE b

TableConfig(seats, starting_stack, small_blind, big_blind) ==
    [seats |-> seats, starting_stack |-> starting_stack,
     small_blind |-> small_blind, big_blind |-> big_blind]

NoHand == [over |-> TRUE, to_act |-> -1, street |-> "none"]

\* a forced or voluntary commitment of up to amt chips by a seat
Commit(hand, seat, amt) ==
    LET pay == MinOf(hand.stack[seat], amt)
    IN  [hand EXCEPT !.stack[seat] = @ - pay,
                     !.cstreet[seat] = @ + pay,
                     !.ctotal[seat] = @ + pay,
                     !.status[seat] = IF hand.stack[seat] - pay = 0 /\ @ = "active"
                                      THEN "all_in" ELSE @]

NonFolded(hand) == {s \in Seats(hand.n) : hand.status[s] # "folded"}

\* a seat still owes a decision in this betting round
Owes(hand, s) ==
    /\ hand.status[s] = "active"
    /\ (~hand.acted[s] \/ hand.cstreet[s] < hand.bet_to_match)

\* the first seat clockwise from `from` (inclusive) that owes a decision, or -1
NextToAct(hand, from) ==
    LET owing == {k \in 0..(hand.n - 1) : Owes(hand, (from + k) % hand.n)}
    IN  IF owing = {} THEN -1
        ELSE (from + (CHOOSE k \in owing : \A j \in owing : k <= j)) % hand.n

NextStreetName(st) ==
    CASE st = "preflop" -> "flop" [] st = "flop" -> "turn" [] st = "turn" -> "river"

\* between streets: reset the street commitments and the betting state
NextStreet(hand) ==
    [hand EXCEPT !.street = NextStreetName(hand.street),
                 !.cstreet = [s \in Seats(hand.n) |-> 0],
                 !.acted = [s \in Seats(hand.n) |-> FALSE],
                 !.bet_to_match = 0,
                 !.min_raise = hand.big_blind]

\* after the blinds or an action: who acts next, on which street, or the hand is over
RECURSIVE Progress(_, _)
Progress(hand, from) ==
    IF Cardinality(NonFolded(hand)) <= 1
    THEN [hand EXCEPT !.over = TRUE, !.to_act = -1, !.showdown = FALSE]
    ELSE LET t == NextToAct(hand, from)
         IN  IF t >= 0 THEN [hand EXCEPT !.to_act = t]
             ELSE IF hand.street = "river"
             THEN [hand EXCEPT !.over = TRUE, !.to_act = -1, !.showdown = TRUE,
                               !.street = "showdown"]
             ELSE Progress(NextStreet(hand), (hand.dealer + 1) % hand.n)

SmallBlindSeat(n, dealer_seat) == IF n = 2 THEN dealer_seat ELSE (dealer_seat + 1) % n

BigBlindSeat(n, dealer_seat) == IF n = 2 THEN (dealer_seat + 1) % n ELSE (dealer_seat + 2) % n

\* simulate_hand, setup: seats, blinds, first to act
HandSetup(hand_seed, config, dealer_seat, initial_stacks) ==
    LET n == config.seats
        fresh == [seed |-> hand_seed, dealer |-> dealer_seat, n |-> n,
                  big_blind |-> config.big_blind,
                  initial |-> initial_stacks,
                  stack |-> initial_stacks,
                  cstreet |-> [s \in Seats(n) |-> 0],
                  ctotal |-> [s \in Seats(n) |-> 0],
                  status |-> [s \in Seats(n) |->
                                 IF initial_stacks[s] = 0 THEN "all_in" ELSE "active"],
                  acted |-> [s \in Seats(n) |-> FALSE],
                  street |-> "preflop",
                  bet_to_match |-> config.big_blind,
                  min_raise |-> config.big_blind,
                  to_act |-> -1,
                  actions |-> <<>>,
                  over |-> FALSE,
                  showdown |-> FALSE]
        sb == SmallBlindSeat(n, dealer_seat)
        bb == BigBlindSeat(n, dealer_seat)
        blinds == Commit(Commit(fresh, sb, config.small_blind), bb, config.big_blind)
    IN  Progress(blinds, (bb + 1) % n)

\* the legal actions of a seat, each {type, min, max}
LegalActions(hand, s) ==
    LET owe == hand.bet_to_match - hand.cstreet[s]
        Entry(t, lo, hi) == [type |-> t, min |-> lo, max |-> hi]
        most == hand.stack[s] + hand.cstreet[s]
        \* a seat that already acted and faces a short all-in may only call or fold
        reopened == ~hand.acted[s]
        fold  == <<Entry("fold", 0, 0)>>
        check == IF owe = 0 THEN <<Entry("check", 0, 0)>> ELSE <<>>
        call  == IF owe > 0
                 THEN <<Entry("call", MinOf(hand.stack[s], owe), MinOf(hand.stack[s], owe))>>
                 ELSE <<>>
        bet   == IF hand.bet_to_match = 0 /\ most >= hand.big_blind /\ reopened
                 THEN <<Entry("bet", hand.big_blind, most)>> ELSE <<>>
        raise == IF hand.bet_to_match > 0 /\ most >= hand.bet_to_match + hand.min_raise
                    /\ reopened
                 THEN <<Entry("raise", hand.bet_to_match + hand.min_raise, most)>> ELSE <<>>
        allin == IF hand.stack[s] > 0 /\ reopened THEN <<Entry("all_in", most, most)>> ELSE <<>>
    IN  fold \o check \o call \o bet \o raise \o allin

\* make_bot_visible_state(..., equity_samples=20): what the actor may see
make_bot_visible_state(hand, actor_seat) ==
    [hand_id |-> Str(hand.seed),
     street |-> hand.street,
     actor_seat |-> actor_seat,
     dealer_seat |-> hand.dealer,
     stacks |-> hand.stack,
     bet_to_match |-> hand.bet_to_match,
     min_raise |-> hand.min_raise,
     pot |-> Sum(hand.ctotal),
     legal_actions |-> LegalActions(hand, actor_seat)]

\* normalize_action: the proposed action mapped into the legal set
normalize_action(proposed, legal_actions) ==
    LET types == {legal_actions[i].type : i \in 1..Len(legal_actions)}
        entry(t) == legal_actions[CHOOSE i \in 1..Len(legal_actions) : legal_actions[i].type = t]
        fallback == IF "check" \in types THEN "check"
                    ELSE IF "call" \in types THEN "call" ELSE "fold"
        t == IF proposed.type \in types THEN proposed.type ELSE fallback
        amount == IF t \in {"bet", "raise"} /\ "amount" \in DOMAIN proposed
                  THEN (IF proposed.amount < entry(t).min THEN entry(t).min
                        ELSE IF proposed.amount > entry(t).max THEN entry(t).max
                        ELSE proposed.amount)
                  ELSE IF t \in {"fold", "check"} THEN 0
                  ELSE entry(t).min
    IN  [type |-> t, amount |-> amount]

\* has_acted is reset for the other active seats when the action is reopened
Reopen(hand, s) ==
    [hand EXCEPT !.acted = [k \in Seats(hand.n) |-> k = s]]

\* the effect of a normalised action of seat s
ApplyAction(hand, s, act) ==
    LET logged == [hand EXCEPT !.actions = Append(@, [seat |-> s, street |-> hand.street,
                                                      action |-> act.type,
                                                      amount |-> act.amount]),
                               !.acted[s] = TRUE]
        to == hand.stack[s] + hand.cstreet[s]
    IN  CASE act.type = "fold"  -> [logged EXCEPT !.status[s] = "folded"]
          [] act.type = "check" -> logged
          [] act.type = "call"  -> Commit(logged, s, hand.bet_to_match - hand.cstreet[s])
          [] act.type = "bet"   ->
                Reopen([Commit(logged, s, act.amount - hand.cstreet[s])
                            EXCEPT !.bet_to_match = act.amount, !.min_raise = act.amount], s)
          [] act.type = "raise" ->
                Reopen([Commit(logged, s, act.amount - hand.cstreet[s])
                            EXCEPT !.bet_to_match = act.amount,
                                   !.min_raise = act.amount - hand.bet_to_match], s)
          [] act.type = "all_in" ->
                LET shoved == Commit(logged, s, hand.stack[s])
                IN  IF to <= hand.bet_to_match THEN shoved
                    ELSE IF to - hand.bet_to_match >= hand.min_raise
                    THEN Reopen([shoved EXCEPT !.bet_to_match = to,
                                               !.min_raise = to - hand.bet_to_match], s)
                    ELSE [shoved EXCEPT !.bet_to_match = to]

\* the seeded deal and the best-of-7 evaluation, as the showdown strength of a seat
ShowdownStrength(hand_seed, s) == ((hand_seed + 1) * (s + 3) + s * s) % 4

\* the commitment levels of the side pots, ascending
PotLevels(hand) == {hand.ctotal[s] : s \in NonFolded(hand)} \ {0}

\* the side pot at level L, above the level below
PotAt(hand, L) ==
    LET below == {x \in PotLevels(hand) : x < L}
        prev == IF below = {} THEN 0 ELSE Max(below)
        chips == Sum([s \in Seats(hand.n) |->
                         MinOf(L, hand.ctotal[s]) - MinOf(prev, hand.ctotal[s])])
        contenders == {s \in NonFolded(hand) : hand.ctotal[s] >= L}
        best == Max({ShowdownStrength(hand.seed, s) : s \in contenders})
        winners == IF hand.showdown
                   THEN {s \in contenders : ShowdownStrength(hand.seed, s) = best}
                   ELSE contenders
        \* the remainder goes to the earliest winner clockwise from the dealer
        firstk == CHOOSE k \in 1..hand.n :
                     /\ (hand.dealer + k) % hand.n \in winners
                     /\ \A j \in 1..(k - 1) : (hand.dealer + j) % hand.n \notin winners
    IN  [level |-> L, amount |-> chips, winners |-> winners,
         share |-> chips \div Cardinality(winners),
         odd |-> chips % Cardinality(winners),
         odd_seat |-> (hand.dealer + firstk) % hand.n]

\* chips a seat is paid out of all pots
Payout(hand, s) ==
    LET pots == [L \in PotLevels(hand) |-> PotAt(hand, L)]
        won == [L \in PotLevels(hand) |->
                   IF s \in pots[L].winners
                   THEN pots[L].share + (IF s = pots[L].odd_seat THEN pots[L].odd ELSE 0)
                   ELSE 0]
        top == IF PotLevels(hand) = {} THEN 0 ELSE Max(PotLevels(hand))
        \* chips committed above the highest contested level return to the seat
        back == IF hand.ctotal[s] > top THEN hand.ctotal[s] - top ELSE 0
        RECURSIVE Total(_)
        Total(S) == IF S = {} THEN 0
                    ELSE LET L == CHOOSE x \in S : TRUE IN won[L] + Total(S \ {L})
    IN  Total(PotLevels(hand)) + back

\* the number of community cards dealt when the hand ended
BoardCards(hand) ==
    CASE hand.street = "preflop" -> 0
      [] hand.street = "flop"    -> 3
      [] hand.street = "turn"    -> 4
      [] hand.street \in {"river", "showdown"} -> 5

\* simulate_hand, pot resolution: the HandResult
HandResultOf(hand) ==
    LET final == [s \in Seats(hand.n) |-> hand.stack[s] + Payout(hand, s)]
    IN  [seed |-> hand.seed,
         dealer_seat |-> hand.dealer,
         board |-> BoardCards(hand),
         actions |-> hand.actions,
         winners |-> {s \in Seats(hand.n) : Payout(hand, s) > 0},
         delta_stacks |-> [s \in Seats(hand.n) |-> final[s] - hand.initial[s]],
         side_pots |-> {PotAt(hand, L) : L \in PotLevels(hand)},
         final_stacks |-> final]

(***************************************************************************)
(* tournament.py                                                           *)
(***************************************************************************)
DefaultStartingStack == 1000

DefaultSmallBlind == 10

DefaultBigBlind == 20

MatchConfig(hands_, seats_) ==
    [hands |-> hands_, seats |-> seats_, starting_stack |-> DefaultStartingStack,
     small_blind |-> DefaultSmallBlind, big_blind |-> DefaultBigBlind]

MatchResult(seed_, hands_, seats_, final_stacks, chips_won, hand_results) ==
    [seed |-> seed_, hands |-> hands_, seats |-> seats_, final_stacks |-> final_stacks,
     chips_won |-> chips_won, hand_results |-> hand_results]

NoResult == [seed |-> -1, hands |-> -1]

\* len(xs) of a list indexed from 0
ListLen(f) == Cardinality(DOMAIN f)

EmptyList == [i \in {} |-> 0]

LengthMismatchShorterOnly(codes, match_config) == ListLen(codes) < match_config.seats

\* if len(bot_codes) != match_config.seats: raise ValueError
LengthMismatch(codes, match_config) == ListLen(codes) # match_config.seats

\* cfg = TableConfig(...)
Cfg(match_config) ==
    TableConfig(match_config.seats, match_config.starting_stack,
                match_config.small_blind, match_config.big_blind)

\* stacks = [cfg.starting_stack for _ in range(cfg.seats)]
InitialStacks(cfg) == [i \in Seats(cfg.seats) |-> cfg.starting_stack]

\* hand_seed = seed + h * 10_007
HandSeed(seed_, h_) == seed_ + h_ * 10007

NextDealerNoWrap(dealer_, seats_) == dealer_ + 1

\* dealer = (dealer + 1) % cfg.seats
NextDealer(dealer_, seats_) == (dealer_ + 1) % seats_

CarryStacksStale(hr) == [s \in DOMAIN hr.final_stacks |-> hr.final_stacks[s] - hr.delta_stacks[s]]

\* stacks = hr.final_stacks
CarryStacks(hr) == hr.final_stacks

ChipsWonFromZero(stacks_, cfg) == [i \in Seats(cfg.seats) |-> stacks_[i]]

\* chips_won = [stacks[i] - cfg.starting_stack for i in range(cfg.seats)]
ChipsWon(stacks_, cfg) == [i \in Seats(cfg.seats) |-> stacks_[i] - cfg.starting_stack]

\* run_match, entry: the length check, then the locals before the loop
RunMatchEnter ==
    /\ pc = "call"
    /\ IF LengthMismatch(bot_codes, mcfg)
       THEN /\ pc' = "raised"
            /\ UNCHANGED <<h, stacks, dealer, hands>>
       ELSE /\ pc' = "loop"
            /\ stacks' = InitialStacks(Cfg(mcfg))
            /\ dealer' = 0
            /\ hands' = <<>>
            /\ h' = 0
    /\ UNCHANGED <<ev_vars, cmp_vars, buf_vars,
                   arg_vars, rerun, first, result, hd, closure_vars, db_vars,
                   hist_vars>>

\* the loop body up to the call: simulate_hand is entered with the hand's arguments
LoopHand ==
    /\ pc = "loop"
    /\ h < mcfg.hands
    /\ LET hand_seed == HandSeed(seed, h)
       IN  /\ hd' = HandSetup(hand_seed, Cfg(mcfg), dealer, stacks)
           /\ calls' = Append(calls, [seed |-> hand_seed, config |-> Cfg(mcfg),
                                      dealer_seat |-> dealer, initial_stacks |-> stacks,
                                      h |-> h])
    /\ pc' = "hand"
    /\ UNCHANGED <<ev_vars, cmp_vars, buf_vars,
                   arg_vars, rerun, first, h, stacks, dealer, hands, result,
                   closure_vars, db_vars, decisions>>

\* one decision point inside simulate_hand: the visible state is built, the bot is
\* run through _decide, the answer is normalised and applied
DecisionPoint ==
    /\ pc = "hand"
    /\ ~hd.over
    /\ LET seat == hd.to_act
           gs == make_bot_visible_state(hd, seat)
           res == run_bot_action_fast(bot_codes[seat], gs)
           d == _decide(res, gs, logs_by_seat, errors_by_seat, demo_logs)
           act == normalize_action(d.action, gs.legal_actions)
       IN  /\ logs_by_seat' = d.logs
           /\ errors_by_seat' = d.errors
           /\ demo_logs' = d.inline
           /\ hd' = Progress(ApplyAction(hd, seat, act), (seat + 1) % hd.n)
           /\ decisions' = Append(decisions, [seat |-> seat, code |-> bot_codes[seat],
                                              street |-> hd.street, h |-> h,
                                              legal |-> LegalTypes(gs), res |-> res,
                                              returned |-> d.action, applied |-> act.type])
    /\ UNCHANGED <<ev_vars, cmp_vars, buf_vars,
                   arg_vars, pc, rerun, first, h, stacks, dealer, hands, result,
                   db_vars, calls>>

\* simulate_hand returns: hands.append(hr), the stacks carry over, the dealer moves
HandReturn ==
    /\ pc = "hand"
    /\ hd.over
    /\ LET hr == HandResultOf(hd)
       IN  /\ hands' = Append(hands, hr)
           /\ stacks' = CarryStacks(hr)
    /\ dealer' = NextDealer(dealer, Cfg(mcfg).seats)
    /\ h' = h + 1
    /\ hd' = NoHand
    /\ pc' = "loop"
    /\ UNCHANGED <<ev_vars, cmp_vars, buf_vars,
                   arg_vars, rerun, first, result, closure_vars, db_vars, hist_vars>>

\* after the loop: chips_won and the MatchResult
RunMatchReturn ==
    /\ pc = "loop"
    /\ h >= mcfg.hands
    /\ result' = MatchResult(seed, mcfg.hands, mcfg.seats, stacks,
                             ChipsWon(stacks, Cfg(mcfg)), hands)
    /\ pc' = "returned"
    /\ UNCHANGED <<ev_vars, cmp_vars, buf_vars,
                   arg_vars, rerun, first, h, stacks, dealer, hands, hd,
                   closure_vars, db_vars, hist_vars>>

(***************************************************************************)
(* routes.py, bot_detail, action == "demo": the caller of run_match.  The  *)
(* model lets the caller pass any bot list and any MatchConfig within the  *)
(* bounds; the demo table is the case seats = len(table_bots).  JSON       *)
(* columns hold the value they serialise.  Ratings are floating point and  *)
(* only matches_played is kept.                                            *)
(***************************************************************************)
MaxSeats == 3

MaxHands == 4

Seeds == {42, 123}

SeatMismatchMessage == "bot_codes length must equal match_config.seats"

CurrentMatch == match[Len(match)]

\* match = Match(seed, hands, seats, status="running"); the per-seat buffers
DemoBegin ==
    /\ pc = "request"
    /\ match' = Append(match, [id |-> Len(match) + 1, seed |-> seed, hands |-> mcfg.hands,
                               seats |-> mcfg.seats, status |-> "running",
                               error |-> "None"])
    /\ demo_logs' = <<>>
    /\ logs_by_seat' = [i \in Seats(ListLen(bot_codes)) |-> <<>>]
    /\ errors_by_seat' = [i \in Seats(ListLen(bot_codes)) |-> <<>>]
    /\ pc' = "call"
    /\ UNCHANGED <<ev_vars, cmp_vars, buf_vars,
                   arg_vars, rerun, first, run_vars, match_hands, match_results,
                   match_bot_logs, played, hist_vars>>

\* except Exception as e: the match is marked as failed
HandlerExcept ==
    /\ pc = "raised"
    /\ match' = [match EXCEPT ![Len(match)].status = "error",
                              ![Len(match)].error = SeatMismatchMessage]
    /\ pc' = "done"
    /\ UNCHANGED <<ev_vars, cmp_vars, buf_vars,
                   arg_vars, rerun, first, run_vars, closure_vars, match_hands,
                   match_results, match_bot_logs, played, hist_vars>>

\* match.status = "finished"; match.hands, match.seats from the result
HandlerFinished ==
    /\ pc = "returned"
    /\ match' = [match EXCEPT ![Len(match)].status = "finished",
                              ![Len(match)].hands = result.hands,
                              ![Len(match)].seats = result.seats]
    /\ pc' = "persist_hands"
    /\ UNCHANGED <<ev_vars, cmp_vars, buf_vars,
                   arg_vars, rerun, first, run_vars, closure_vars, match_hands,
                   match_results, match_bot_logs, played, hist_vars>>

HandRowsFromOne(res, match_id) ==
    [i \in 1..Len(res.hand_results) |->
        [match_id |-> match_id, hand_index |-> i,
         hand_seed |-> res.hand_results[i].seed,
         dealer_seat |-> res.hand_results[i].dealer_seat,
         board_json |-> res.hand_results[i].board,
         actions_json |-> res.hand_results[i].actions,
         winners_json |-> res.hand_results[i].winners,
         delta_stacks_json |-> res.hand_results[i].delta_stacks,
         side_pots_json |-> res.hand_results[i].side_pots]]

\* for hand_index, hr in enumerate(result.hand_results): MatchHand(...)
HandRows(res, match_id) ==
    [i \in 1..Len(res.hand_results) |->
        [match_id |-> match_id, hand_index |-> i - 1,
         hand_seed |-> res.hand_results[i].seed,
         dealer_seat |-> res.hand_results[i].dealer_seat,
         board_json |-> res.hand_results[i].board,
         actions_json |-> res.hand_results[i].actions,
         winners_json |-> res.hand_results[i].winners,
         delta_stacks_json |-> res.hand_results[i].delta_stacks,
         side_pots_json |-> res.hand_results[i].side_pots]]

PersistHands ==
    /\ pc = "persist_hands"
    /\ match_hands' = match_hands \o HandRows(result, CurrentMatch.id)
    /\ pc' = "persist_results"
    /\ UNCHANGED <<ev_vars, cmp_vars, buf_vars,
                   arg_vars, rerun, first, run_vars, closure_vars, match,
                   match_results, match_bot_logs, played, hist_vars>>

\* for seat, b in enumerate(table_bots): MatchResult(...)
PersistResults ==
    /\ pc = "persist_results"
    /\ match_results' = match_results \o
          [i \in 1..ListLen(bot_codes) |->
              [match_id |-> CurrentMatch.id, bot_id |-> i - 1, seat |-> i - 1,
               hands_played |-> result.hands, chips_won |-> result.chips_won[i - 1]]]
    /\ pc' = "persist_logs"
    /\ UNCHANGED <<ev_vars, cmp_vars, buf_vars,
                   arg_vars, rerun, first, run_vars, closure_vars, match,
                   match_hands, match_bot_logs, played, hist_vars>>

\* the seat's MatchBotLog row, or no row when both texts are empty
BotLogRows(seat, match_id) ==
    LET logs_text == strip(Join(<<"\n">>, logs_by_seat[seat]))
        err_text == strip(Join(<<"\n">>, errors_by_seat[seat]))
    IN  IF logs_text # <<>> \/ err_text # <<>>
        THEN <<[match_id |-> match_id, bot_id |-> seat, seat |-> seat,
                logs |-> IF logs_text # <<>> THEN logs_text ELSE None,
                errors |-> IF err_text # <<>> THEN err_text ELSE None]>>
        ELSE <<>>

RECURSIVE AllBotLogRows(_, _, _)
AllBotLogRows(seat, n, match_id) ==
    IF seat >= n THEN <<>>
    ELSE BotLogRows(seat, match_id) \o AllBotLogRows(seat + 1, n, match_id)

\* for seat, b in enumerate(table_bots): MatchBotLog(...) when there is text
PersistLogs ==
    /\ pc = "persist_logs"
    /\ match_bot_logs' = match_bot_logs \o AllBotLogRows(0, ListLen(bot_codes), CurrentMatch.id)
    /\ pc' = "ratings"
    /\ UNCHANGED <<ev_vars, cmp_vars, buf_vars,
                   arg_vars, rerun, first, run_vars, closure_vars, match,
                   match_hands, match_results, played, hist_vars>>

\* r.matches_played = int(r.matches_played) + 1 for every bot of the table
UpdateRatings ==
    /\ pc = "ratings"
    /\ played' = [i \in DOMAIN played |-> played[i] + 1]
    /\ pc' = "done"
    /\ UNCHANGED <<ev_vars, cmp_vars, buf_vars,
                   arg_vars, rerun, first, run_vars, closure_vars, match,
                   match_hands, match_results, match_bot_logs, hist_vars>>

\* what a run of run_match gave its caller
Outcome == [raised |-> CurrentMatch.status = "error", result |-> result]

\* the same request again: run_match is called a second time with the same arguments
Rerun ==
    /\ pc = "done"
    /\ ~rerun
    /\ rerun' = TRUE
    /\ first' = Outcome
    /\ pc' = "request"
    /\ h' = 0
    /\ stacks' = EmptyList
    /\ dealer' = 0
    /\ hands' = <<>>
    /\ result' = NoResult
    /\ hd' = NoHand
    /\ logs_by_seat' = EmptyList
    /\ errors_by_seat' = EmptyList
    /\ demo_logs' = <<>>
    /\ calls' = <<>>
    /\ decisions' = <<>>
    /\ UNCHANGED <<ev_vars, cmp_vars, buf_vars,
                   arg_vars, db_vars>>

(***************************************************************************)
(* Specifications                                                          *)
(***************************************************************************)
\* the match side at rest
\* no comparison has been asked for
CompareIdle ==
    /\ cmp_a = NoHS
    /\ cmp_b = NoHS
    /\ cmp_r = <<>>

\* no buffer is being appended to outside a match
BufferIdle ==
    /\ ab_buf = <<>>
    /\ ab_appended = <<>>
    /\ ab_max_chars = LogsMaxChars

\* no hand has been handed to the evaluator
EvalIdle ==
    /\ ev_cards = <<>>
    /\ ev_hs = NoHS

\* no match has been asked for
ArgsIdle ==
    /\ bot_codes = EmptyList
    /\ seed = 0
    /\ mcfg = MatchConfig(0, 0)
    /\ played = EmptyList

MatchIdle ==
    /\ pc = "request"
    /\ rerun = FALSE
    /\ first = [raised |-> FALSE, result |-> NoResult]
    /\ h = 0
    /\ stacks = EmptyList
    /\ dealer = 0
    /\ hands = <<>>
    /\ result = NoResult
    /\ hd = NoHand
    /\ logs_by_seat = EmptyList
    /\ errors_by_seat = EmptyList
    /\ demo_logs = <<>>
    /\ match = <<>>
    /\ match_hands = <<>>
    /\ match_results = <<>>
    /\ match_bot_logs = <<>>
    /\ calls = <<>>
    /\ decisions = <<>>

Init ==
    /\ ev_cards = <<>>
    /\ ev_hs = NoHS
    /\ \E n \in 1..MaxSeats : bot_codes \in [Seats(n) -> BotCodes]
    /\ seed \in Seeds
    /\ \E hands_ \in 0..MaxHands, seats_ \in 1..MaxSeats : mcfg = MatchConfig(hands_, seats_)
    /\ played = [i \in DOMAIN bot_codes |-> 0]
    /\ CompareIdle
    /\ BufferIdle
    /\ MatchIdle

Next ==
    \/ DemoBegin
    \/ RunMatchEnter
    \/ LoopHand
    \/ DecisionPoint
    \/ HandReturn
    \/ RunMatchReturn
    \/ HandlerExcept
    \/ HandlerFinished
    \/ PersistHands
    \/ PersistResults
    \/ PersistLogs
    \/ UpdateRatings
    \/ Rerun

Spec == Init /\ [][Next]_vars

(***************************************************************************)
(* Evaluator harness: a 5-card hand is drawn, handed to rank_5 in one of   *)
(* a few list orders, and the returned HandStrength is kept.               *)
(***************************************************************************)
\* the deck the hands are drawn from: the ace and the ranks 2..MaxLowRank, all suits
MaxLowRank == 6

EvalRanks == {r \in Range(RANKS) : _rank_value(r) = 14 \/ _rank_value(r) <= MaxLowRank}

EvalDeck == SetSortedDesc({IndexOf(RANKS, r) * 4 + IndexOf(SUITS, s) :
                              r \in EvalRanks, s \in Range(SUITS)})

\* the card string of a deck position
CardAt(k) == <<RANKS[(k \div 4) + 1], SUITS[(k % 4) + 1]>>

\* the list orders rank_5 is called with
ListOrders == {<<1, 2, 3, 4, 5>>, <<4, 1, 5, 3, 2>>}

InitEval ==
    /\ \E i1 \in 1..Len(EvalDeck) : \E i2 \in (i1 + 1)..Len(EvalDeck) :
       \E i3 \in (i2 + 1)..Len(EvalDeck) : \E i4 \in (i3 + 1)..Len(EvalDeck) :
       \E i5 \in (i4 + 1)..Len(EvalDeck) : \E o \in ListOrders :
          LET hand == <<CardAt(EvalDeck[i1]), CardAt(EvalDeck[i2]), CardAt(EvalDeck[i3]),
                        CardAt(EvalDeck[i4]), CardAt(EvalDeck[i5])>>
          IN  ev_cards = [k \in 1..5 |-> hand[o[k]]]
    /\ ev_hs = NoHS
    /\ bot_codes = EmptyList
    /\ seed = 0
    /\ mcfg = MatchConfig(0, 0)
    /\ played = EmptyList
    /\ CompareIdle
    /\ BufferIdle
    /\ MatchIdle

\* hs = rank_5(cards)
EvRank ==
    /\ ev_hs = NoHS
    /\ ev_hs' = rank_5(ev_cards)
    /\ UNCHANGED <<ev_cards, cmp_vars, buf_vars,
                   arg_vars, pc, rerun, first, run_vars, closure_vars, db_vars,
                   hist_vars>>

NextEval == EvRank

SpecEval == InitEval /\ [][NextEval]_vars

(***************************************************************************)
(* Evaluator harness for 7 cards: a 7-card list is drawn from the first    *)
(* Deck7Size cards of a fixed deck order and handed to best_of_7.          *)
(***************************************************************************)
Deck7Size == 14

Deck7Order ==
    <<<<"A", "h">>, <<"2", "h">>, <<"3", "h">>, <<"4", "h">>, <<"5", "h">>, <<"6", "h">>,
      <<"2", "c">>, <<"2", "d">>, <<"2", "s">>, <<"A", "c">>, <<"9", "d">>, <<"K", "s">>,
      <<"6", "c">>, <<"3", "c">>, <<"K", "d">>, <<"9", "s">>, <<"A", "d">>, <<"4", "s">>>>

Deck7 == Take(Deck7Order, Deck7Size)

InitBest7 ==
    /\ \E i1 \in 1..Len(Deck7) : \E i2 \in (i1 + 1)..Len(Deck7) :
       \E i3 \in (i2 + 1)..Len(Deck7) : \E i4 \in (i3 + 1)..Len(Deck7) :
       \E i5 \in (i4 + 1)..Len(Deck7) : \E i6 \in (i5 + 1)..Len(Deck7) :
       \E i7 \in (i6 + 1)..Len(Deck7) :
          ev_cards = <<Deck7[i1], Deck7[i2], Deck7[i3], Deck7[i4], Deck7[i5], Deck7[i6],
                       Deck7[i7]>>
    /\ ev_hs = NoHS
    /\ bot_codes = EmptyList
    /\ seed = 0
    /\ mcfg = MatchConfig(0, 0)
    /\ played = EmptyList
    /\ CompareIdle
    /\ BufferIdle
    /\ MatchIdle

\* hs = best_of_7(cards7)
EvBest7 ==
    /\ ev_hs = NoHS
    /\ Len(ev_cards) = 7
    /\ ev_hs' = best_of_7(ev_cards)
    /\ UNCHANGED <<ev_cards, cmp_vars, buf_vars,
                   arg_vars, pc, rerun, first, run_vars, closure_vars, db_vars,
                   hist_vars>>

NextBest7 == EvBest7

SpecBest7 == InitBest7 /\ [][NextBest7]_vars

(***************************************************************************)
(* Comparison harness: two hand strengths are drawn from a bounded set and *)
(* handed to _compare_hand_strength.                                       *)
(***************************************************************************)
MaxTupleLen == 2

\* the rank values the drawn tiebreak tuples are made of
CmpRanks == {_rank_value("5"), _rank_value("A")}

CmpTuples == UNION {[1..k -> CmpRanks] : k \in 1..MaxTupleLen}

\* hand strengths rank_5 returns for some well-known hands
KnownStrengths ==
    {rank_5(<<<<"K", "h">>, <<"Q", "h">>, <<"J", "h">>, <<"9", "h">>, <<"2", "h">>>>),
     rank_5(<<<<"A", "h">>, <<"K", "d">>, <<"Q", "c">>, <<"J", "s">>, <<"T", "h">>>>),
     rank_5(<<<<"A", "h">>, <<"2", "d">>, <<"3", "c">>, <<"4", "s">>, <<"5", "h">>>>),
     rank_5(<<<<"6", "h">>, <<"2", "d">>, <<"3", "c">>, <<"4", "s">>, <<"5", "h">>>>)}

Strengths ==
    {HandStrength(_CATEGORY[c], t) : c \in 1..Len(_CATEGORY), t \in CmpTuples}
        \cup KnownStrengths

InitCompare ==
    /\ cmp_a \in Strengths
    /\ cmp_b \in Strengths
    /\ cmp_r = <<>>
    /\ EvalIdle
    /\ ArgsIdle
    /\ BufferIdle
    /\ MatchIdle

\* r = _compare_hand_strength(a, b)
EvCompare ==
    /\ cmp_r = <<>>
    /\ cmp_a # NoHS
    /\ cmp_r' = <<_compare_hand_strength(cmp_a, cmp_b)>>
    /\ UNCHANGED <<ev_vars, cmp_a, cmp_b, buf_vars, arg_vars, pc, rerun, first, run_vars,
                   closure_vars, db_vars, hist_vars>>

NextCompare == EvCompare

SpecCompare == InitCompare /\ [][NextCompare]_vars

(***************************************************************************)
(* Capture harness: blocks are appended to one seat's buffer with the cap  *)
(* of the log buffer or of the error buffer.                               *)
(***************************************************************************)
MaxAppends == 3

\* a block of n characters whose characters vary along the block
Fill(n, k) == [i \in 1..n |-> Digits[((i + (i \div 7) + k) % 10) + 1]]

\* the blocks handed to _append_block: nothing, a short block with a line
\* break inside, and blocks around half the cap, just under it and over it
Blocks(cap) ==
    {<<>>,
     <<"h", "\n", "i">>,
     Fill(cap \div 2, 1),
     Fill(cap - 4, 2),
     Fill(cap + 5, 3)}

InitAppend ==
    /\ ab_buf = <<>>
    /\ ab_appended = <<>>
    /\ ab_max_chars \in {LogsMaxChars, ErrorsMaxChars}
    /\ EvalIdle
    /\ CompareIdle
    /\ ArgsIdle
    /\ MatchIdle

\* _append_block(buf, block, max_chars=...)
AppendBlock ==
    /\ Len(ab_appended) < MaxAppends
    /\ \E block \in Blocks(ab_max_chars) :
          /\ ab_buf' = _append_block(ab_buf, block, ab_max_chars)
          /\ ab_appended' = Append(ab_appended, block)
    /\ UNCHANGED <<ev_vars, cmp_vars, ab_max_chars, arg_vars, pc, rerun, first, run_vars,
                   closure_vars, db_vars, hist_vars>>

NextAppend == AppendBlock

SpecAppend == InitAppend /\ [][NextAppend]_vars

(***************************************************************************)
(* The hand categories and tiebreak tuples as the design document's table  *)
(* states them, computed from the hand as a set of cards.                  *)
(***************************************************************************)
TableRank == [c \in Range(RANKS) |->
    CASE c = "2" -> 2 [] c = "3" -> 3 [] c = "4" -> 4 [] c = "5" -> 5 [] c = "6" -> 6
      [] c = "7" -> 7 [] c = "8" -> 8 [] c = "9" -> 9 [] c = "T" -> 10 [] c = "J" -> 11
      [] c = "Q" -> 12 [] c = "K" -> 13 [] c = "A" -> 14]

TableOrder == <<"straight_flush", "four_of_a_kind", "full_house", "flush", "straight",
                "three_of_a_kind", "two_pair", "pair", "high_card">>

Min(S) == CHOOSE x \in S : \A y \in S : x <= y

\* the elements of a set of integers, strongest first
Descending(S) ==
    CHOOSE q \in [1..Cardinality(S) -> S] :
        \A i \in 1..Cardinality(S), j \in 1..Cardinality(S) : i < j => q[i] > q[j]

TableRanks(cards) == {TableRank[cards[i][1]] : i \in 1..Len(cards)}

TableCount(cards, r) == Cardinality({i \in 1..Len(cards) : TableRank[cards[i][1]] = r})

TableFlush(cards) == \A i, j \in 1..Len(cards) : cards[i][2] = cards[j][2]

TableStraightTop(cards) ==
    LET R == TableRanks(cards)
    IN  IF R = {14, 2, 3, 4, 5} THEN 5
        ELSE IF Cardinality(R) = 5 /\ Max(R) - Min(R) = 4 THEN Max(R)
        ELSE 0

TableApplies(cards, cat) ==
    LET R == TableRanks(cards)
        N(k) == {r \in R : TableCount(cards, r) = k}
    IN  CASE cat = "straight_flush"  -> TableFlush(cards) /\ TableStraightTop(cards) > 0
          [] cat = "four_of_a_kind"  -> N(4) # {}
          [] cat = "full_house"      -> N(3) # {} /\ N(2) # {}
          [] cat = "flush"           -> TableFlush(cards)
          [] cat = "straight"        -> TableStraightTop(cards) > 0
          [] cat = "three_of_a_kind" -> N(3) # {}
          [] cat = "two_pair"        -> Cardinality(N(2)) = 2
          [] cat = "pair"            -> N(2) # {}
          [] cat = "high_card"       -> TRUE

TableCategory(cards) ==
    TableOrder[Min({i \in 1..Len(TableOrder) : TableApplies(cards, TableOrder[i])})]

TableTuple(cards) ==
    LET R == TableRanks(cards)
        N(k) == {r \in R : TableCount(cards, r) = k}
        The(S) == CHOOSE x \in S : TRUE
        cat == TableCategory(cards)
    IN  CASE cat = "straight_flush"  -> <<TableStraightTop(cards)>>
          [] cat = "four_of_a_kind"  -> <<The(N(4)), The(N(1))>>
          [] cat = "full_house"      -> <<The(N(3)), The(N(2))>>
          [] cat = "flush"           -> Descending(R)
          [] cat = "straight"        -> <<TableStraightTop(cards)>>
          [] cat = "three_of_a_kind" -> <<The(N(3))>> \o Descending(N(1))
          [] cat = "two_pair"        -> <<Max(N(2)), Min(N(2)), The(N(1))>>
          [] cat = "pair"            -> <<The(N(2))>> \o Descending(N(1))
          [] cat = "high_card"       -> Descending(R)

IsWheel(cards) == TableRanks(cards) = {14, 2, 3, 4, 5}

IsSixHigh(cards) == TableRanks(cards) = {2, 3, 4, 5, 6}

\* C9: every wheel A-2-3-4-5 that is not a flush ranks as (straight, (5,)), every
\* 2-3-4-5-6 that is not a flush ranks as (straight, (6,)), and comparing the wheel
\* with the six-high straight gives -1: the ace never counts as top rank 14 in a wheel.
C9_WheelIsFiveHigh ==
    (ev_hs # NoHS /\ ~TableFlush(ev_cards)) =>
        /\ IsWheel(ev_cards) =>
              /\ ev_hs = HandStrength("straight", <<5>>)
              /\ _compare_hand_strength(ev_hs, HandStrength("straight", <<6>>)) = -1
        /\ IsSixHigh(ev_cards) =>
              /\ ev_hs = HandStrength("straight", <<6>>)
              /\ _compare_hand_strength(HandStrength("straight", <<5>>), ev_hs) = -1

C9_Witness ==
    /\ ev_hs # NoHS
    /\ IsWheel(ev_cards)
    /\ ~TableFlush(ev_cards)
    /\ Range(ev_cards) = {<<"A", "h">>, <<"2", "c">>, <<"3", "d">>, <<"4", "s">>, <<"5", "h">>}
    /\ ev_hs = HandStrength("straight", <<5>>)

\* C10: for every hand of 5 distinct cards rank_5 returns the highest applicable
\* category of the table's order together with the table's tiebreak tuple for it.
C10_CategoryAndTuple ==
    ev_hs # NoHS =>
        ev_hs = HandStrength(TableCategory(ev_cards), TableTuple(ev_cards))

C10_Witness ==
    /\ ev_hs = HandStrength("pair", <<3, 14, 6, 4>>)
    /\ Cardinality(Range(ev_cards)) = 5
(***************************************************************************)
(* Properties of best_of_7                                                 *)
(***************************************************************************)
\* the 5-card hands inside a card list: one list per 5-element set of positions
FiveCardHands(cards) ==
    {[i \in 1..5 |-> cards[SetSortedDesc(I)[6 - i]]] :
        I \in {J \in SUBSET (1..Len(cards)) : Cardinality(J) = 5}}

\* C11: for 7 distinct cards best_of_7 returns a HandStrength that is rank_5 of one
\* of the 21 five-card subsets and compares >= rank_5 of every five-card subset; so
\* adding 2 cards to a 5-card hand H never gives less than rank_5(H).
C11_BestOfSeven ==
    (ev_hs # NoHS /\ Len(ev_cards) = 7) =>
        /\ Cardinality(FiveCardHands(ev_cards)) = 21
        /\ \E H \in FiveCardHands(ev_cards) : ev_hs = rank_5(H)
        /\ \A H \in FiveCardHands(ev_cards) : _compare_hand_strength(ev_hs, rank_5(H)) >= 0

C11_Witness ==
    /\ Len(ev_cards) = 7
    /\ ev_hs = HandStrength("straight_flush", <<6>>)
    /\ rank_5(SubSeq(ev_cards, 1, 5)) = HandStrength("straight_flush", <<5>>)
    /\ \E H \in FiveCardHands(ev_cards) : rank_5(H).category = "pair"

(***************************************************************************)
(* Properties of _compare_hand_strength                                    *)
(***************************************************************************)
CategoryIndex(hs) == CHOOSE i \in 1..Len(_CATEGORY) : _CATEGORY[i] = hs.category

\* C12: compare is a total order on hand strengths: the result is in {-1, 0, 1};
\* compare(a, b) = -compare(b, a); compare(a, b) = 0 exactly when category and
\* tiebreak tuple are both equal; compare(a, b) >= 0 and compare(b, c) >= 0 imply
\* compare(a, c) >= 0; a higher category beats a lower one whatever the tuples.
C12_CompareTotalOrder ==
    cmp_r # <<>> =>
        LET r == cmp_r[1]
        IN  /\ r \in {-1, 0, 1}
            /\ r = 0 - _compare_hand_strength(cmp_b, cmp_a)
            /\ (r = 0) <=> (cmp_a.category = cmp_b.category /\ cmp_a.rank = cmp_b.rank)
            /\ \A c \in Strengths :
                  (r >= 0 /\ _compare_hand_strength(cmp_b, c) >= 0)
                      => _compare_hand_strength(cmp_a, c) >= 0
            /\ CategoryIndex(cmp_a) > CategoryIndex(cmp_b) => r = 1
            /\ CategoryIndex(cmp_a) < CategoryIndex(cmp_b) => r = -1

\* a king-high flush has been compared with an ace-high straight
C12_Witness ==
    /\ cmp_a = HandStrength("flush", <<13, 12, 11, 9, 2>>)
    /\ cmp_b = HandStrength("straight", <<14>>)
    /\ cmp_r = <<1>>

(***************************************************************************)
(* Properties of the bounded capture                                       *)
(***************************************************************************)
\* the non-empty blocks of a list of blocks, in order
NonEmptyBlocks(blocks) == SelectSeq(blocks, LAMBDA b : b # <<>>)

\* the last n characters of a text, or all of it when it is shorter
Trailing(text, n) ==
    IF Len(text) <= n THEN text ELSE SubSeq(text, Len(text) - n + 1, Len(text))

\* C13: after any sequence of appends to a seat's log buffer (cap 20,000) or error
\* buffer (cap 30,000) the newline-joined content of the buffer is never longer than
\* the cap and is exactly the trailing part of the newline-joined sequence of all
\* non-empty blocks appended so far.
C13_BoundedTail ==
    LET content == Join(<<"\n">>, ab_buf)
        everything == Join(<<"\n">>, NonEmptyBlocks(ab_appended))
    IN  /\ Len(content) <= ab_max_chars
        /\ content = Trailing(everything, ab_max_chars)

\* the error buffer has been cut twice and holds the end of one block, a short
\* block and the start of nothing else
C13_Witness ==
    /\ ab_max_chars = ErrorsMaxChars
    /\ Len(ab_appended) = 3
    /\ ab_appended[3] = <<"h", "\n", "i">>
    /\ Len(ab_buf) = 1
    /\ Len(ab_buf[1]) = ErrorsMaxChars
    /\ Len(Join(<<"\n">>, NonEmptyBlocks(ab_appended))) > 2 * ErrorsMaxChars

(***************************************************************************)
(* Properties of the match runner and its caller                           *)
(***************************************************************************)
\* run_match has been entered and passed its length check
Running == pc \in {"loop", "hand"}

\* run_match has returned a MatchResult
Returned == result # NoResult

\* the run has ended for run_match: it returned or raised
Ended == pc \in {"raised", "returned", "persist_hands", "persist_results", "persist_logs",
                 "ratings", "done"}

StartTotal == mcfg.seats * mcfg.starting_stack

\* every simulate_hand call so far returned as many chips as it was given
HandsConserve ==
    \A i \in 1..Len(hands) : Sum(hands[i].final_stacks) = Sum(calls[i].initial_stacks)

\* C1: provided every hand returns final stacks that sum to the stacks it was given,
\* the carried stacks sum to seats * starting_stack after every hand and in the
\* MatchResult, and the chips won sum to zero, for every number of hands (0 included).
C1_ChipConservation ==
    HandsConserve =>
        /\ (Running \/ Returned) => Sum(stacks) = StartTotal
        /\ \A i \in 1..Len(hands) : Sum(hands[i].final_stacks) = StartTotal
        /\ Returned => /\ Sum(result.final_stacks) = StartTotal
                       /\ Sum(result.chips_won) = 0

C1_Witness ==
    /\ Returned
    /\ mcfg.hands >= 2
    /\ HandsConserve
    /\ \E s \in DOMAIN result.chips_won : result.chips_won[s] > 0

\* a bot run has failed: the result is not ok, or it carries no action
Failed(res) == ~res.ok \/ res.action = NoAction

\* the action the claim names for a failure: check, else call, else fold
Chain(types) ==
    IF "check" \in types THEN "check" ELSE IF "call" \in types THEN "call" ELSE "fold"

ActionTypes == <<"fold", "check", "call", "bet", "raise", "all_in">>

\* a visible state whose legal actions have exactly the given types
StateWithLegal(types) ==
    [hand_id |-> <<"7">>, street |-> "preflop", actor_seat |-> 0,
     legal_actions |-> SelectSeq([i \in 1..Len(ActionTypes) |->
                                     [type |-> ActionTypes[i], min |-> 0, max |-> 0]],
                                 LAMBDA a : a.type \in types)]

\* every shape of a failed sandbox result
FailedResults ==
    {r \in {BotRunResult(ok, action, <<>>, error) :
                ok \in BOOLEAN, action \in {NoAction, Action("all_in")},
                error \in {None, <<>>, <<"b", "o", "o", "m">>}} : Failed(r)}

\* the wrapper on every failed result and every set of legal action types
WrapperFallsBack ==
    \A types \in SUBSET Range(ActionTypes) : \A res \in FailedResults :
        _decide(res, StateWithLegal(types), [i \in {0} |-> <<>>], [i \in {0} |-> <<>>], <<>>).action
            = Action(Chain(types))

\* C3: whenever a bot's run fails, _decide returns check if check is legal, else call
\* if call is legal, else fold; the failure is not propagated: the hand goes on with
\* that action, and a match whose seat count fits its bot list runs to completion,
\* never ending in error.
C3_FailureFallback ==
    /\ WrapperFallsBack
    /\ \A i \in 1..Len(decisions) :
          Failed(decisions[i].res) =>
              /\ decisions[i].returned = Action(Chain(decisions[i].legal))
              /\ decisions[i].applied = Chain(decisions[i].legal)
    /\ pc = "hand" => (hd.over \/ hd.to_act \in DOMAIN bot_codes)
    /\ ListLen(bot_codes) = mcfg.seats =>
          /\ pc # "raised"
          /\ pc = "done" => /\ CurrentMatch.status = "finished"
                            /\ Len(result.hand_results) = mcfg.hands
                            /\ Sum(result.final_stacks) = StartTotal

C3_Witness ==
    /\ pc = "done"
    /\ CurrentMatch.status = "finished"
    /\ mcfg.hands >= 2
    /\ \E s \in DOMAIN bot_codes :
          /\ bot_codes[s] = CRASHING_BOT
          /\ \A i \in 1..Len(decisions) : decisions[i].seat = s => Failed(decisions[i].res)
          /\ \E i \in 1..Len(decisions) :
                decisions[i].seat = s /\ decisions[i].applied = "call"
          /\ \E i \in 1..Len(decisions) :
                decisions[i].seat = s /\ decisions[i].applied = "check"

\* C4: the hands are simulated one after another for h = 0, 1, ..., hands-1; the h-th
\* call to simulate_hand gets seed + h * 10007 and dealer seat h mod seats.
C4_HandSchedule ==
    /\ \A i \in 1..Len(calls) :
          /\ calls[i].h = i - 1
          /\ calls[i].seed = seed + (i - 1) * 10007
          /\ calls[i].dealer_seat = (i - 1) % mcfg.seats
          /\ i - 1 < mcfg.hands
    /\ Running => /\ dealer = h % mcfg.seats
                  /\ Len(hands) = h
                  /\ Len(calls) = h + (IF pc = "hand" THEN 1 ELSE 0)
    /\ Returned => Len(calls) = mcfg.hands

C4_Witness ==
    /\ Returned
    /\ mcfg.seats = 3
    /\ Len(calls) = 4
    /\ calls[4].dealer_seat = 0
    /\ calls[3].dealer_seat = 2
    /\ calls[4].seed = seed + 30021

\* C5: the first hand is given starting_stack for every seat; every later hand is
\* given exactly the final stacks the hand before it returned; the MatchResult's
\* final stacks are the last hand's (the starting stacks when hands = 0) and
\* chips_won[i] = final_stacks[i] - starting_stack for every seat i.
C5_StackCarry ==
    /\ \A i \in 1..Len(calls) :
          calls[i].initial_stacks =
              IF i = 1 THEN [s \in Seats(mcfg.seats) |-> mcfg.starting_stack]
              ELSE hands[i - 1].final_stacks
    /\ Returned =>
          /\ result.final_stacks =
                IF mcfg.hands = 0 THEN [s \in Seats(mcfg.seats) |-> mcfg.starting_stack]
                ELSE result.hand_results[mcfg.hands].final_stacks
          /\ DOMAIN result.chips_won = Seats(mcfg.seats)
          /\ \A s \in Seats(mcfg.seats) :
                result.chips_won[s] = result.final_stacks[s] - mcfg.starting_stack

C5_Witness ==
    /\ Returned
    /\ mcfg.hands >= 3
    /\ calls[2].initial_stacks # [s \in Seats(mcfg.seats) |-> mcfg.starting_stack]
    /\ calls[3].initial_stacks # calls[2].initial_stacks

\* C6: when len(bot_codes) differs from match_config.seats, run_match raises before
\* any call to simulate_hand, decide or make_state and returns no MatchResult; when
\* the two are equal it does not raise.
C6_SeatMismatchFailsFast ==
    /\ ListLen(bot_codes) # mcfg.seats =>
          /\ pc \in {"request", "call", "raised", "done"}
          /\ calls = <<>>
          /\ decisions = <<>>
          /\ hd = NoHand
          /\ result = NoResult
          /\ pc = "done" => CurrentMatch.status = "error"
    /\ ListLen(bot_codes) = mcfg.seats =>
          /\ pc # "raised"
          /\ \A i \in 1..Len(match) : match[i].status # "error"

C6_Witness ==
    /\ pc = "raised"
    /\ ListLen(bot_codes) > mcfg.seats
    /\ mcfg.hands > 0

\* C7: every table on which run_match plays a hand has at least 2 seats; a match
\* with fewer seats is rejected before any hand is simulated.
C7_SeatsAtLeastTwo ==
    /\ \A i \in 1..Len(calls) : calls[i].config.seats >= 2
    /\ pc = "hand" => mcfg.seats >= 2

\* the MatchHand rows of a match
RowsOf(match_id) == SelectSeq(match_hands, LAMBDA r : r.match_id = match_id)

\* C8: a match configured for N hands that finishes without error yields a
\* MatchResult with hands = N and exactly N hand results in play order, and exactly
\* N MatchHand rows are persisted for it, with hand_index 0..N-1, each index once.
C8_HandCount ==
    /\ Returned =>
          /\ result.hands = mcfg.hands
          /\ Len(result.hand_results) = mcfg.hands
          /\ \A i \in 1..Len(result.hand_results) :
                /\ result.hand_results[i].seed = calls[i].seed
                /\ result.hand_results[i].dealer_seat = calls[i].dealer_seat
    /\ pc \in {"persist_results", "persist_logs", "ratings", "done"} /\ Returned =>
          LET rows == RowsOf(CurrentMatch.id)
          IN  /\ CurrentMatch.status = "finished"
              /\ CurrentMatch.hands = mcfg.hands
              /\ Len(rows) = mcfg.hands
              /\ \A k \in 0..(mcfg.hands - 1) :
                    Cardinality({i \in 1..Len(rows) : rows[i].hand_index = k}) = 1
              /\ \A i \in 1..Len(rows) :
                    /\ rows[i].hand_index = i - 1
                    /\ rows[i].hand_seed = result.hand_results[i].seed
                    /\ rows[i].actions_json = result.hand_results[i].actions

C8_Witness ==
    /\ pc = "done"
    /\ rerun
    /\ mcfg.seats = 2
    /\ mcfg.hands = 4
    /\ Len(RowsOf(2)) = 4
    /\ Len(match_hands) = 8

====
